---- MODULE Spec2Model ----
(***************************************************************************)
(* Resolver of the ICP <-> EVM atomic swap service (resolver/index.js and  *)
(* resolver/contracts.js): order submission, escrow orchestration, the     *)
(* timelock-gated withdrawal scheduler with its two retries, operator      *)
(* cancellation and the hourly cleanup of failed orders.                   *)
(*                                                                         *)
(* Node runs the service on one event loop.  A handler runs without        *)
(* interruption until it awaits real I/O (an adapter call) or a timer, so  *)
(* one action of this model is one such uninterrupted run.  An await of an *)
(* already settled promise (checkLiquidityRequirements only compares       *)
(* constants) resumes in the same microtask drain and is no point at which *)
(* another request, timer or cron callback can run.                        *)
(*                                                                         *)
(* Time is counted in coarse ticks; delays are scaled so that their order  *)
(* is kept: settle delay <= retry delay <= largest withdrawal timelock =   *)
(* retention window of the cleanup job (86400 s = 24 h).                   *)
(***************************************************************************)
EXTENDS Integers, Sequences, FiniteSets

\* ------------------------------------------------------------ bounds ----
MaxOrders == 2
MaxTime == 3

\* ------------------------------------------------- program constants ----
\* amounts are counted in units of 10^16 base units
MaxOrderSize == 100
MockBalance == 1000000
DepositPercent == 15
\* delays in ticks
SettleDelay == 1
RetryDelay == 1
MinWithdrawal == 1
MaxWithdrawal == 2
Retention == 2

\* order hashes a client may submit; all orders of a run share one hash, so
\* every pair of orders is a pair of submissions of the same orderHash
Hashes == {"0xh1"}
Ids == 1..MaxOrders
Chains == {"icp", "ethereum"}
WithdrawalLocks == MinWithdrawal..MaxWithdrawal
SrcAmounts == {MaxOrderSize, MaxOrderSize + 1}
DstAmounts == {MaxOrderSize, MockBalance}

NoOrder == 0
NotDeployed == -1

VARIABLES
    now,              \* wall clock, in ticks
    evmManager,       \* TRUE iff the EVM contract manager was configured
    activeOrders,     \* Map orderHash -> order record (NoOrder: no entry)
    completedOrders,  \* Map orderHash -> order record (NoOrder: no entry)
    orders,           \* the orderData objects, by allocation number
    tasks,            \* position of each order's async task
    orderList,        \* EVMContractManager.orderList: orderHash -> escrow info
    deployedAt,       \* deployment time of each order's two escrows
    calls,            \* adapter calls issued by each order's task, in order
    lastSubmit,       \* outcome of the latest POST /orders
    probe             \* a pure function applied on its own: input and result

vars == <<now, evmManager, activeOrders, completedOrders, orders, tasks,
          orderList, deployedAt, calls, lastSubmit, probe>>

\* ------------------------------------------------------ pure helpers ----
\* variant: the deposit is rounded up
calculateSafetyDepositCeil(amount) == (amount * DepositPercent + 99) \div 100

calculateSafetyDeposit(amount) == (amount * DepositPercent) \div 100

calculateRequiredLiquidity(srcAmount, dstAmount, safetyDeposit) ==
    [srcChain |-> srcAmount + safetyDeposit,
     dstChain |-> dstAmount + calculateSafetyDeposit(dstAmount)]

\* variant: only the source chain is compared
checkLiquidityRequirementsSrcOnly(srcAmount, dstAmount, safetyDeposit) ==
    LET required == calculateRequiredLiquidity(srcAmount, dstAmount, safetyDeposit)
    IN  MockBalance >= required.srcChain

checkLiquidityRequirements(srcAmount, dstAmount, safetyDeposit) ==
    LET required == calculateRequiredLiquidity(srcAmount, dstAmount, safetyDeposit)
    IN  MockBalance >= required.srcChain /\ MockBalance >= required.dstChain

\* the object checkLiquidityRequirements returns
liquidityResult(x) ==
    LET required ==
            calculateRequiredLiquidity(x.srcAmount, x.dstAmount, x.safetyDeposit)
    IN  [sufficient |->
             checkLiquidityRequirements(x.srcAmount, x.dstAmount, x.safetyDeposit),
         srcRequired |-> required.srcChain, srcAvailable |-> MockBalance,
         dstRequired |-> required.dstChain, dstAvailable |-> MockBalance]

\* BigInt(string) and BigInt.prototype.toString on strings of decimal digits
RECURSIVE BigInt(_)
BigInt(str) ==
    IF str = <<>> THEN 0
    ELSE 10 * BigInt(SubSeq(str, 1, Len(str) - 1)) + str[Len(str)]

RECURSIVE toString(_)
toString(n) == IF n < 10 THEN <<n>> ELSE toString(n \div 10) \o <<n % 10>>

\* calculateSafetyDeposit on the strings the request carries
safetyDepositString(amount) == toString(calculateSafetyDeposit(BigInt(amount)))

isEVMToICP(o) == o.srcChain # "icp" /\ o.dstChain = "icp"
isICPToEVM(o) == o.srcChain = "icp" /\ o.dstChain # "icp"

\* the custom rule of orderSchema: exactly one side is ICP
SupportedPair(src, dst) ==
    (src # "icp" /\ dst = "icp") \/ (src = "icp" /\ dst # "icp")

\* chain of an order's escrow on the given side
\* variant: the chain pairing of the two sides is swapped
ChainOfSwapped(o, side) == IF side = "src" THEN o.dstChain ELSE o.srcChain

ChainOf(o, side) == IF side = "src" THEN o.srcChain ELSE o.dstChain

\* error messages: an adapter error is named after the call that raised it
AdapterError(op, attempt) == [op |-> op, attempt |-> attempt, all |-> FALSE]
NotInitialized == [op |-> "EVM manager not initialized", attempt |-> 0, all |-> FALSE]
NoEscrowAddress == [op |-> "No escrow address found", attempt |-> 0, all |-> FALSE]
AllAttemptsFailed(msg) == [msg EXCEPT !.all = TRUE]
NoError == [op |-> "", attempt |-> 0, all |-> FALSE]

\* ------------------------------------------------ secret and hashlock ----
\* hexadecimal text of a byte array (Buffer.toString('hex')), digit by digit
toHex(bytes) ==
    [k \in 1..(2 * Len(bytes)) |->
        IF k % 2 = 1 THEN bytes[(k + 1) \div 2] \div 16
        ELSE bytes[k \div 2] % 16]

\* byte array of a hexadecimal text (Buffer.from(hex, 'hex'))
fromHex(hex) ==
    [k \in 1..(Len(hex) \div 2) |-> hex[2 * k - 1] * 16 + hex[2 * k]]

\* stand-in for the digest: one-to-one on byte arrays and never the identity
sha256(bytes) == [k \in 1..Len(bytes) |-> 255 - bytes[k]]

\* the n-th draw of the random generator; draws do not repeat
randomBytes(n) == <<17 * n>>

\* variant: the hashlock is the digest of another draw
generateSecretUnrelated(n) ==
    LET secret == randomBytes(n)
        hashlock == sha256(randomBytes(n + 1))
    IN  [secret |-> secret, hashlock |-> hashlock,
         secretHex |-> toHex(secret), hashlockHex |-> toHex(hashlock)]

generateSecret(n) ==
    LET secret == randomBytes(n)
        hashlock == sha256(secret)
    IN  [secret |-> secret, hashlock |-> hashlock,
         secretHex |-> toHex(secret), hashlockHex |-> toHex(hashlock)]

NoKeys == [secret |-> <<>>, hashlock |-> <<>>, secretHex |-> <<>>, hashlockHex |-> <<>>]

\* hashlock handed to an escrow-creation call (0x-prefixed hex for EVM, byte
\* array rebuilt from the hex for ICP)
hashlockBytes(o) == fromHex(o.keys.hashlockHex)

\* secret handed to a withdrawal call
secretBytes(o) == fromHex(o.keys.secretHex)

NoOrderData ==
    [orderHash |-> "", srcChain |-> "", dstChain |-> "", withdrawal |-> 0,
     status |-> "none", createdAt |-> 0, steps |-> <<>>, error |-> NoError,
     keys |-> NoKeys]

NoSubmit == "none"

IdleTask == [pc |-> "idle", attempt |-> 0, due |-> 0, k |-> 0, http |-> "none"]

Allocated == {i \in Ids : orders[i].status # "none"}

NoProbe == [fn |-> "none", input |-> <<>>, done |-> FALSE, output |-> "none"]

InitRegistry ==
    /\ now = 0
    /\ evmManager \in BOOLEAN
    /\ activeOrders = [h \in Hashes |-> NoOrder]
    /\ completedOrders = [h \in Hashes |-> NoOrder]
    /\ orders = [i \in Ids |-> NoOrderData]
    /\ tasks = [i \in Ids |-> IdleTask]
    /\ orderList = [h \in Hashes |-> NoOrder]
    /\ deployedAt = [i \in Ids |-> [src |-> NotDeployed, dst |-> NotDeployed]]
    /\ calls = [i \in Ids |-> <<>>]
    /\ lastSubmit = NoSubmit

Init == InitRegistry /\ probe = NoProbe

\* ------------------------------------------------- record helpers ----
PushStep(o, name) ==
    [o EXCEPT !.steps = Append(@, [name |-> name, status |-> "pending",
                                   error |-> NoError])]

\* variant: the function writes to the first step of the list
EndStepFirst(o, status, err) ==
    [o EXCEPT !.steps[1] = [@ EXCEPT !.status = status, !.error = err]]

\* the step object held by the running function is the last one pushed
EndStep(o, status, err) ==
    [o EXCEPT !.steps[Len(o.steps)] = [@ EXCEPT !.status = status, !.error = err]]

\* address the factory derives from an order's immutables; the deployment
\* time the contract writes into the timelocks is part of them
addressOfEscrow(i, t) == <<i, t>>

\* address asked for before the deployment: the immutables of formatImmutables
\* hold the placeholder, which is the time of no block
predictedAddress(i) == addressOfEscrow(i, NotDeployed)

NoEscrow == [address |-> <<>>, deployedAt |-> NotDeployed]

NewCall(op, side, chain, attempt, target) ==
    [op |-> op, side |-> side, chain |-> chain, attempt |-> attempt,
     target |-> target, escrow |-> NoEscrow, res |-> "pending"]

EndCall(cs, res) == [cs EXCEPT ![Len(cs)].res = res]

\* whether the receipt of a creation may lack the creation event: an EVM
\* receipt may, an ICP creation has no receipt
ReceiptEvents(chain) == IF chain # "icp" THEN BOOLEAN ELSE {TRUE}

\* escrowAddress returned by a creation of order i deployed at time t
reportedEscrow(i, chain, event, t) ==
    IF chain # "icp" /\ event
    THEN [address |-> addressOfEscrow(i, t), deployedAt |-> t]
    ELSE NoEscrow

\* a creation call returns its result
EndCreate(cs, escrow) ==
    [cs EXCEPT ![Len(cs)].res = "ok", ![Len(cs)].escrow = escrow]

\* catch block of processOrder: looks the order up by its hash
processOrderCatch(ords, h, msg) ==
    IF activeOrders[h] # NoOrder
    THEN [ords EXCEPT ![activeOrders[h]].status = "failed",
                      ![activeOrders[h]].error = msg]
    ELSE ords

\* duplicate check of POST /orders
OrderExists(h) == activeOrders[h] # NoOrder \/ completedOrders[h] # NoOrder

\* delay of the withdrawal timer armed by scheduleWithdrawal
totalDelay(o) == o.withdrawal

\* variant: the destination side is called before the source side
WithdrawalSidesDstFirst(o) ==
    IF isEVMToICP(o) THEN <<"src">>
    ELSE IF isICPToEVM(o) THEN <<"dst", "src">>
    ELSE <<>>

\* sides on which executeWithdrawal issues a withdrawal call, in call order
WithdrawalSides(o) ==
    IF isEVMToICP(o) THEN <<"src">>
    ELSE IF isICPToEVM(o) THEN <<"src", "dst">>
    ELSE <<>>

\* variant: a third retry is nested
RetryLeftFour(attempt) == attempt < 4

\* the scheduler nests two retries inside the initial attempt
RetryLeft(attempt) == attempt < 3

\* the escrow accepts a secret only if it hashes to the escrow's hashlock;
\* every order draws a fresh secret, so only its own escrows accept it
SecretAccepted(i, target) == target = i

\* ------------------------------------------------------ POST /orders ----
InsufficientLiquidity == [op |-> "Insufficient liquidity", attempt |-> 0, all |-> FALSE]

\* the checks of the handler and of processOrder, in the order they are made
SubmitOutcome(h, src, dst, srcAmount, dstAmount) ==
    IF ~SupportedPair(src, dst) THEN "400"
    ELSE IF OrderExists(h) THEN "409"
    ELSE IF srcAmount > MaxOrderSize THEN "400"
    ELSE IF ~checkLiquidityRequirements(srcAmount, dstAmount,
                                        calculateSafetyDeposit(srcAmount))
    THEN "500"
    ELSE "accepted"

\* variant: the order is registered before the liquidity check is made
SubmitRejectedRegistersFirst(h, src, dst, srcAmount, dstAmount) ==
    LET outcome == SubmitOutcome(h, src, dst, srcAmount, dstAmount)
        i == Cardinality(Allocated) + 1
        registers == outcome = "500" /\ i \in Ids
        o == [orderHash |-> h, srcChain |-> src, dstChain |-> dst,
              withdrawal |-> MinWithdrawal, status |-> "failed",
              createdAt |-> now, steps |-> <<>>,
              error |-> InsufficientLiquidity, keys |-> generateSecret(i)]
    IN  /\ outcome # "accepted"
        /\ lastSubmit' = outcome
        /\ orders' = IF registers THEN [orders EXCEPT ![i] = o] ELSE orders
        /\ activeOrders' = IF registers THEN [activeOrders EXCEPT ![h] = i]
                           ELSE activeOrders
        /\ tasks' = IF registers
                    THEN [tasks EXCEPT ![i] =
                             [IdleTask EXCEPT !.pc = "done", !.http = "500"]]
                    ELSE tasks
        /\ UNCHANGED <<probe, now, evmManager, completedOrders, orderList, deployedAt,
                       calls>>

\* a submission answered with an error before the order is registered
SubmitRejected(h, src, dst, srcAmount, dstAmount) ==
    LET outcome == SubmitOutcome(h, src, dst, srcAmount, dstAmount)
    IN  /\ outcome # "accepted"
        /\ lastSubmit' = outcome
        /\ orders' = IF outcome = "500"
                     THEN processOrderCatch(orders, h, InsufficientLiquidity)
                     ELSE orders
        /\ UNCHANGED <<probe, now, evmManager, activeOrders, completedOrders, tasks,
                       orderList, deployedAt, calls>>

Submit(h, src, dst, w, srcAmount, dstAmount) ==
    LET i == Cardinality(Allocated) + 1
        o0 == [orderHash |-> h, srcChain |-> src, dstChain |-> dst,
               withdrawal |-> w, status |-> "processing", createdAt |-> now,
               steps |-> <<>>, error |-> NoError, keys |-> generateSecret(i)]
        o1 == PushStep(o0, "create_source_escrow")
        act == [activeOrders EXCEPT ![h] = i]
    IN  /\ SubmitOutcome(h, src, dst, srcAmount, dstAmount) = "accepted"
        /\ i \in Ids
        /\ lastSubmit' = "accepted"
        /\ activeOrders' = act
        /\ IF src # "icp" /\ ~evmManager
           THEN \* createSourceEscrow throws before any call is made
                /\ orders' = [orders EXCEPT
                       ![i] = [EndStep(o1, "failed", NotInitialized)
                                 EXCEPT !.status = "failed",
                                        !.error = NotInitialized]]
                /\ tasks' = [tasks EXCEPT ![i] =
                       [IdleTask EXCEPT !.pc = "done", !.http = "500"]]
                /\ UNCHANGED calls
           ELSE /\ orders' = [orders EXCEPT ![i] = o1]
                /\ tasks' = [tasks EXCEPT ![i] =
                       [IdleTask EXCEPT !.pc = "createSrc", !.http = "open"]]
                /\ calls' = [calls EXCEPT ![i] =
                       <<NewCall("create", "src", src, 0, i)>>]
        /\ UNCHANGED <<probe, now, evmManager, completedOrders, orderList, deployedAt>>

\* ------------------------------------------- escrow creation returns ----
\* a creation call that failed: the step and (by hash) the order are failed
\* variant: a failed source creation is recorded but processing continues
\* with the destination creation
CreateFailedContinues(i, side) ==
    LET o == orders[i]
        msg == AdapterError(side, 0)
        o1 == PushStep(EndStep(o, "failed", msg), "create_destination_escrow")
    IN  /\ orders' = [orders EXCEPT ![i] = o1]
        /\ tasks' = [tasks EXCEPT ![i] =
               IF side = "src" THEN [@ EXCEPT !.pc = "createDst"]
               ELSE [@ EXCEPT !.pc = "done", !.http = "500"]]
        /\ calls' = [calls EXCEPT ![i] =
               IF side = "src"
               THEN Append(EndCall(@, "err"),
                           NewCall("create", "dst", o.dstChain, 0, i))
               ELSE EndCall(@, "err")]
        /\ UNCHANGED <<probe, lastSubmit, now, evmManager, activeOrders, completedOrders,
                       orderList, deployedAt>>

CreateFailed(i, side) ==
    LET h == orders[i].orderHash
        msg == AdapterError(side, 0)
        ords == [orders EXCEPT ![i] = EndStep(@, "failed", msg)]
    IN  /\ orders' = processOrderCatch(ords, h, msg)
        /\ tasks' = [tasks EXCEPT ![i] =
               [@ EXCEPT !.pc = "done", !.http = "500"]]
        /\ calls' = [calls EXCEPT ![i] = EndCall(@, "err")]
        /\ UNCHANGED <<probe, lastSubmit, now, evmManager, activeOrders, completedOrders,
                       orderList, deployedAt>>

\* variant: a failed source creation is called again
CreateSrcReturnRetries(i, ok) ==
    /\ tasks[i].pc = "createSrc"
    /\ ~ok
    /\ calls' = [calls EXCEPT ![i] =
           Append(EndCall(@, "err"),
                  NewCall("create", "src", orders[i].srcChain, 0, i))]
    /\ UNCHANGED <<now, evmManager, activeOrders, completedOrders, orders,
                   tasks, orderList, deployedAt, lastSubmit, probe>>

CreateSrcReturn(i, ok) ==
    /\ tasks[i].pc = "createSrc"
    /\ IF ~ok THEN CreateFailed(i, "src")
       ELSE LET o == orders[i]
                h == o.orderHash
                o1 == PushStep(EndStep(o, "completed", NoError),
                               "create_destination_escrow")
                ords1 == [orders EXCEPT ![i] = o1]
            IN  \E event \in ReceiptEvents(o.srcChain) :
                /\ deployedAt' = [deployedAt EXCEPT ![i].src = now]
                /\ orderList' = IF o.srcChain # "icp" /\ event
                                THEN [orderList EXCEPT ![h] = i]
                                ELSE orderList
                /\ IF o.dstChain # "icp" /\ ~evmManager
                   THEN \* createDestinationEscrow throws before any call
                        /\ orders' = processOrderCatch(
                               [ords1 EXCEPT ![i] =
                                   EndStep(o1, "failed", NotInitialized)],
                               h, NotInitialized)
                        /\ tasks' = [tasks EXCEPT ![i] =
                               [@ EXCEPT !.pc = "done", !.http = "500"]]
                        /\ calls' = [calls EXCEPT ![i] =
                               EndCreate(@, reportedEscrow(i, o.srcChain, event, now))]
                   ELSE /\ orders' = ords1
                        /\ tasks' = [tasks EXCEPT ![i] =
                               [@ EXCEPT !.pc = "createDst"]]
                        /\ calls' = [calls EXCEPT ![i] =
                               Append(EndCreate(@, reportedEscrow(i, o.srcChain,
                                                                 event, now)),
                                      NewCall("create", "dst", o.dstChain, 0, i))]
                /\ UNCHANGED <<probe, lastSubmit, now, evmManager, activeOrders, completedOrders>>

\* variant: scheduleWithdrawal is called whatever the destination creation
\* returned
CreateDstReturnArmsAlways(i, ok) ==
    LET o == orders[i]
        h == o.orderHash
    IN  /\ tasks[i].pc = "createDst"
        /\ deployedAt' = IF ok THEN [deployedAt EXCEPT ![i].dst = now]
                         ELSE deployedAt
        /\ orderList' = IF ok /\ o.dstChain # "icp"
                        THEN [orderList EXCEPT ![h] = i]
                        ELSE orderList
        /\ orders' = [orders EXCEPT ![i] =
               IF ok THEN EndStep(o, "completed", NoError)
               ELSE EndStep(o, "failed", AdapterError("dst", 0))]
        /\ tasks' = [tasks EXCEPT ![i] =
               [@ EXCEPT !.pc = "timer", !.attempt = 1,
                         !.due = now + totalDelay(o), !.http = "201"]]
        /\ calls' = [calls EXCEPT ![i] = EndCall(@, IF ok THEN "ok" ELSE "err")]
        /\ UNCHANGED <<probe, lastSubmit, now, evmManager, activeOrders,
                       completedOrders>>

\* on success of both creations processOrder calls scheduleWithdrawal
CreateDstReturn(i, ok) ==
    /\ tasks[i].pc = "createDst"
    /\ IF ~ok THEN CreateFailed(i, "dst")
       ELSE LET o == orders[i]
                h == o.orderHash
            IN  \E event \in ReceiptEvents(o.dstChain) :
                /\ deployedAt' = [deployedAt EXCEPT ![i].dst = now]
                /\ orderList' = IF o.dstChain # "icp" /\ event
                                THEN [orderList EXCEPT ![h] = i]
                                ELSE orderList
                /\ orders' = [orders EXCEPT ![i] = EndStep(o, "completed", NoError)]
                /\ tasks' = [tasks EXCEPT ![i] =
                       [@ EXCEPT !.pc = "timer", !.attempt = 1,
                                 !.due = now + totalDelay(o),
                                 !.http = "201"]]
                /\ calls' = [calls EXCEPT ![i] =
                       EndCreate(@, reportedEscrow(i, o.dstChain, event, now))]
                /\ UNCHANGED <<probe, lastSubmit, now, evmManager, activeOrders, completedOrders>>

\* ------------------------------------------------ executeWithdrawal ----
\* catch blocks of executeWithdrawal and of the scheduler callback that ran it
WithdrawalFailed(ords, i, msg) ==
    LET h == orders[i].orderHash
        o1 == [EndStep(ords[i], "failed", msg)
                 EXCEPT !.status = "failed", !.error = msg]
        ords1 == [ords EXCEPT ![i] = o1]
        a == tasks[i].attempt
    IN  IF RetryLeft(a)
        THEN /\ orders' = ords1
             /\ tasks' = [tasks EXCEPT ![i] =
                    [@ EXCEPT !.pc = "timer", !.attempt = a + 1,
                              !.due = now + RetryDelay, !.k = 0]]
        ELSE \* final retry failed: mark the order found under the hash
             /\ orders' = IF activeOrders[h] # NoOrder
                          THEN [ords1 EXCEPT
                                  ![activeOrders[h]].status = "failed",
                                  ![activeOrders[h]].error = AllAttemptsFailed(msg)]
                          ELSE ords1
             /\ tasks' = [tasks EXCEPT ![i] =
                    [@ EXCEPT !.pc = "done", !.due = 0, !.k = 0]]

\* issue the k-th withdrawal call of the running attempt
\* side of an order that lies on an EVM chain
evmSide(o) == IF o.srcChain # "icp" THEN "src" ELSE "dst"

\* variant: the call goes to the address predicted before the deployment
withdrawalEscrowPredicted(j) ==
    [address |-> predictedAddress(j), deployedAt |-> NotDeployed]

\* contract address and deployment time of the immutables of an EVM
\* withdrawal, from the orderList entry that the creation of order j wrote
withdrawalEscrow(j) ==
    LET t == deployedAt[j][evmSide(orders[j])]
    IN  [address |-> addressOfEscrow(j, t), deployedAt |-> t]

IssueWithdrawal(ords, i, k) ==
    LET o == orders[i]
        h == o.orderHash
        side == WithdrawalSides(o)[k]
        chain == ChainOf(o, side)
    IN  IF chain # "icp" /\ ~evmManager
        THEN /\ WithdrawalFailed(ords, i, NotInitialized)
             /\ UNCHANGED calls
        ELSE IF chain # "icp" /\ orderList[h] = NoOrder
        THEN /\ WithdrawalFailed(ords, i, NoEscrowAddress)
             /\ UNCHANGED calls
        ELSE /\ orders' = ords
             /\ tasks' = [tasks EXCEPT ![i] =
                    [@ EXCEPT !.pc = "withdraw", !.due = 0, !.k = k]]
             /\ calls' = [calls EXCEPT ![i] =
                    Append(@, IF chain # "icp"
                              THEN [NewCall("withdraw", side, chain,
                                            tasks[i].attempt, orderList[h])
                                      EXCEPT !.escrow = withdrawalEscrow(orderList[h])]
                              ELSE NewCall("withdraw", side, chain,
                                           tasks[i].attempt, i))]

\* variant: the initial callback checks the active set only
TimerRunsIfActive(i) == activeOrders[orders[i].orderHash] # NoOrder

\* whether the callback of the timer runs executeWithdrawal
TimerRuns(i) ==
    LET h == orders[i].orderHash
    IN  IF tasks[i].attempt = 1
        THEN /\ activeOrders[h] # NoOrder
             /\ orders[activeOrders[h]].status = "processing"
        ELSE activeOrders[h] # NoOrder

\* callback of the withdrawal timer (initial attempt and the two retries)
TimerFire(i) ==
    /\ tasks[i].pc = "timer"
    /\ now >= tasks[i].due
    /\ IF TimerRuns(i)
       THEN IF WithdrawalSides(orders[i]) = <<>>
            THEN /\ WithdrawalFailed(
                        [orders EXCEPT ![i] = PushStep(@, "execute_withdrawal")],
                        i, AdapterError("direction", tasks[i].attempt))
                 /\ UNCHANGED calls
            ELSE IssueWithdrawal(
                     [orders EXCEPT ![i] = PushStep(@, "execute_withdrawal")], i, 1)
       ELSE /\ tasks' = [tasks EXCEPT ![i] =
                   [@ EXCEPT !.pc = "done", !.due = 0, !.k = 0]]
            /\ UNCHANGED <<orders, calls>>
    /\ UNCHANGED <<probe, lastSubmit, now, evmManager, activeOrders, completedOrders, orderList,
                   deployedAt>>

\* executeWithdrawal on success: completedOrders.set / activeOrders.delete
\* variant: the order is not entered into the completed set
completedKeptAfterSuccess(h, i) == completedOrders

completedAfterSuccess(h, i) == [completedOrders EXCEPT ![h] = i]

\* variant: the order is left in the active set on success
activeKeptAfterSuccess(h) == activeOrders

activeAfterSuccess(h) == [activeOrders EXCEPT ![h] = NoOrder]

\* a withdrawal call returns
WithdrawReturn(i, ok) ==
    LET o == orders[i]
        h == o.orderHash
        k == tasks[i].k
        c == calls[i][Len(calls[i])]
    IN  /\ tasks[i].pc = "withdraw"
        /\ ok => (c.chain = "icp" \/ SecretAccepted(i, c.target))
        /\ IF ~ok
           THEN /\ WithdrawalFailed(orders, i, AdapterError(c.side, tasks[i].attempt))
                /\ calls' = [calls EXCEPT ![i] = EndCall(@, "err")]
                /\ UNCHANGED <<activeOrders, completedOrders>>
           ELSE IF k < Len(WithdrawalSides(o))
           THEN \* wait the settle delay before the next call
                /\ tasks' = [tasks EXCEPT ![i] =
                       [@ EXCEPT !.pc = "settle", !.due = now + SettleDelay]]
                /\ calls' = [calls EXCEPT ![i] = EndCall(@, "ok")]
                /\ UNCHANGED <<orders, activeOrders, completedOrders>>
           ELSE \* all calls of the attempt returned: the order is completed
                /\ orders' = [orders EXCEPT ![i] =
                       [EndStep(o, "completed", NoError)
                          EXCEPT !.status = "completed"]]
                /\ completedOrders' = completedAfterSuccess(h, i)
                /\ activeOrders' = activeAfterSuccess(h)
                /\ tasks' = [tasks EXCEPT ![i] =
                       [@ EXCEPT !.pc = "done", !.due = 0, !.k = 0]]
                /\ calls' = [calls EXCEPT ![i] = EndCall(@, "ok")]
        /\ UNCHANGED <<probe, lastSubmit, now, evmManager, orderList, deployedAt>>

\* the settle delay between the two withdrawal calls has elapsed
SettleDone(i) ==
    /\ tasks[i].pc = "settle"
    /\ now >= tasks[i].due
    /\ IssueWithdrawal(orders, i, tasks[i].k + 1)
    /\ UNCHANGED <<probe, lastSubmit, now, evmManager, activeOrders, completedOrders, orderList,
                   deployedAt>>

\* --------------------------------------- POST /orders/:orderHash/cancel ----
\* variant: the order is looked up in the completed set as well
CancelAnywhere(h) ==
    LET i == IF activeOrders[h] # NoOrder THEN activeOrders[h]
             ELSE completedOrders[h]
    IN  /\ i # NoOrder
        /\ orders' = [orders EXCEPT ![i].status = "cancelling"]
        /\ UNCHANGED <<probe, lastSubmit, now, evmManager, activeOrders,
                       completedOrders, tasks, orderList, deployedAt, calls>>

Cancel(h) ==
    /\ activeOrders[h] # NoOrder
    /\ orders[activeOrders[h]].status # "completed"
    /\ orders' = [orders EXCEPT ![activeOrders[h]].status = "cancelling"]
    /\ UNCHANGED <<probe, lastSubmit, now, evmManager, activeOrders, completedOrders, tasks,
                   orderList, deployedAt, calls>>

\* ------------------------------------------------- hourly cleanup job ----
\* variant: the sweep does not look at the status
CleanupRemovesAnyStatus(h) ==
    /\ activeOrders[h] # NoOrder
    /\ orders[activeOrders[h]].createdAt < now - Retention

CleanupRemoves(h) ==
    /\ activeOrders[h] # NoOrder
    /\ orders[activeOrders[h]].status = "failed"
    /\ orders[activeOrders[h]].createdAt < now - Retention

Cleanup ==
    /\ \E h \in Hashes : CleanupRemoves(h)
    /\ activeOrders' = [h \in Hashes |->
           IF CleanupRemoves(h) THEN NoOrder ELSE activeOrders[h]]
    /\ UNCHANGED <<probe, lastSubmit, now, evmManager, completedOrders, orders, tasks, orderList,
                   deployedAt, calls>>

Tick ==
    /\ now < MaxTime
    /\ now' = now + 1
    /\ UNCHANGED <<evmManager, activeOrders, completedOrders, orders, tasks,
                   orderList, deployedAt, calls, lastSubmit, probe>>

Next ==
    \/ \E h \in Hashes, src \in Chains, dst \in Chains, w \in WithdrawalLocks,
          sa \in SrcAmounts, da \in DstAmounts : Submit(h, src, dst, w, sa, da)
    \/ \E h \in Hashes, src \in Chains, dst \in Chains,
          sa \in SrcAmounts, da \in DstAmounts :
              SubmitRejected(h, src, dst, sa, da)
    \/ \E i \in Ids, ok \in BOOLEAN : CreateSrcReturn(i, ok)
    \/ \E i \in Ids, ok \in BOOLEAN : CreateDstReturn(i, ok)
    \/ \E i \in Ids : TimerFire(i)
    \/ \E i \in Ids, ok \in BOOLEAN : WithdrawReturn(i, ok)
    \/ \E i \in Ids : SettleDone(i)
    \/ \E h \in Hashes : Cancel(h)
    \/ Cleanup
    \/ Tick

Spec == Init /\ [][Next]_vars

\* an adapter call that was issued returns, a timer that is due fires, and
\* the clock advances
Fairness ==
    /\ WF_vars(Tick)
    /\ \A i \in Ids :
           /\ WF_vars(\E ok \in BOOLEAN : CreateSrcReturn(i, ok))
           /\ WF_vars(\E ok \in BOOLEAN : CreateDstReturn(i, ok))
           /\ WF_vars(TimerFire(i))
           /\ WF_vars(\E ok \in BOOLEAN : WithdrawReturn(i, ok))
           /\ WF_vars(SettleDone(i))

LiveSpec == Spec /\ Fairness

\* ==================================================== pure functions ====
\* orderSchema and the checks of POST /orders that need no registry, applied
\* to requests whose other fields (hash, tokens, amounts, deadline) are valid
withdrawalMin == 10
withdrawalMax == 86400
publicWithdrawalMin == 30
publicWithdrawalMax == 172800
cancellationMin == 3600
cancellationMax == 604800

SchemaChains == {"icp", "ethereum", "base"}
HandlerChains == {"icp", "ethereum", "polygon", "arbitrum", "base"}

\* field rules of orderSchema
schemaFields(req) ==
    /\ req.srcChain \in SchemaChains
    /\ req.dstChain \in SchemaChains
    /\ req.withdrawal \in withdrawalMin..withdrawalMax
    /\ req.publicWithdrawal \in publicWithdrawalMin..publicWithdrawalMax
    /\ req.cancellation \in cancellationMin..cancellationMax

\* variant: the address requirements of the two directions are exchanged
requiredAddressesExchanged(req) ==
    IF isEVMToICP(req)
    THEN {"makerEVMAddress", "makerICPAddress", "takerICPAddress"}
    ELSE {"makerICPAddress", "makerEVMAddress", "takerEVMAddress"}

\* addresses the custom rule of orderSchema requires for the direction
requiredAddresses(req) ==
    IF isEVMToICP(req)
    THEN {"makerICPAddress", "makerEVMAddress", "takerEVMAddress"}
    ELSE {"makerEVMAddress", "makerICPAddress", "takerICPAddress"}

\* variant: the custom rule lets every chain pair pass
schemaCustomAnyPair(req) == requiredAddresses(req) \subseteq req.addresses

\* custom rule of orderSchema
schemaCustom(req) ==
    IF isEVMToICP(req) \/ isICPToEVM(req)
    THEN requiredAddresses(req) \subseteq req.addresses
    ELSE FALSE

\* variant: equal timelocks pass
timelocksNonDecreasing(req) ==
    /\ ~(req.withdrawal > req.publicWithdrawal)
    /\ ~(req.publicWithdrawal > req.cancellation)

\* timelock constraints of POST /orders
timelocksIncreasing(req) ==
    /\ ~(req.withdrawal >= req.publicWithdrawal)
    /\ ~(req.publicWithdrawal >= req.cancellation)

\* the response of POST /orders up to the call of processOrder
validateOrder(req) ==
    IF ~schemaFields(req) \/ ~schemaCustom(req) THEN "Invalid order format"
    ELSE IF req.srcChain = req.dstChain
    THEN "Source and destination chains must be different"
    ELSE IF req.srcChain \notin HandlerChains \/ req.dstChain \notin HandlerChains
    THEN "Unsupported chain specified"
    ELSE IF ~timelocksIncreasing(req)
    THEN IF req.withdrawal >= req.publicWithdrawal
         THEN "Public withdrawal timelock must be greater than withdrawal timelock"
         ELSE "Cancellation timelock must be greater than public withdrawal timelock"
    ELSE "processOrder"

\* requests, liquidity inputs and amounts the functions are applied to
ProbeChains == {"icp", "ethereum", "base", "polygon"}
WithdrawalProbes ==
    {withdrawalMin - 1, withdrawalMin, cancellationMin - 1, cancellationMin,
     withdrawalMax, withdrawalMax + 1}
PublicWithdrawalProbes ==
    {publicWithdrawalMin - 1, publicWithdrawalMin, cancellationMin,
     publicWithdrawalMax, publicWithdrawalMax + 1}
CancellationProbes ==
    {cancellationMin - 1, cancellationMin, cancellationMin + 1,
     cancellationMax, cancellationMax + 1}
AddressNames ==
    {"makerEVMAddress", "makerICPAddress", "takerEVMAddress", "takerICPAddress"}
Requests ==
    [srcChain : ProbeChains, dstChain : ProbeChains,
     withdrawal : WithdrawalProbes, publicWithdrawal : PublicWithdrawalProbes,
     cancellation : CancellationProbes, addresses : SUBSET AddressNames]

\* amounts around the balance the liquidity check compares with
LiquidityAmounts ==
    {0, 1, MaxOrderSize, 869565, 869566, 869567, MockBalance, MockBalance + 1}
LiquidityInputs ==
    {[srcAmount |-> a, dstAmount |-> b, safetyDeposit |-> d] :
        a \in LiquidityAmounts, b \in LiquidityAmounts,
        d \in {0, 15, 130434, 130435}}

\* amounts as the request carries them: strings of decimal digits
MaxDigits == 3
AmountStrings == UNION {[1..n -> 0..9] : n \in 1..MaxDigits}

\* two requests with different order hashes, handled one after the other
\* while the creation calls of the first are still in flight
ConcurrentAmounts == {1, 500000, 869566, 869567}
ConcurrentInputs ==
    [1..2 -> [srcAmount : {MaxOrderSize}, dstAmount : ConcurrentAmounts]]

\* ------------------------------------------ parameters of a creation ----
\* amounts are strings of decimal digits, tokens are strings
WeiDigitsPerE8s == 10

\* the digits of a number without leading zeros
RECURSIVE canonical(_)
canonical(str) ==
    IF Len(str) > 1 /\ str[1] = 0 THEN canonical(Tail(str)) ELSE str

\* BigInt(etherAmount) / BigInt(10**10), as a string of digits: the division
\* drops the last ten digits
etherToICPAmount(etherAmount) ==
    IF Len(etherAmount) <= WeiDigitsPerE8s THEN <<0>>
    ELSE canonical(SubSeq(etherAmount, 1, Len(etherAmount) - WeiDigitsPerE8s))

\* token and amount of the immutables of an EVM escrow; a || b is b only
\* when a is empty
formatImmutables(o) ==
    [token |-> IF o.srcToken # "" THEN o.srcToken ELSE o.dstToken,
     amount |-> IF o.srcAmount # <<>> THEN o.srcAmount ELSE o.dstAmount]

MissingEVMAddresses == "Missing required EVM addresses"
MissingICPAddresses == "Missing required ICP addresses"
NoParams == [token |-> "", amount |-> <<>>]

createEVMSourceEscrow(o) ==
    IF ~({"takerEVMAddress", "makerEVMAddress"} \subseteq o.addresses)
    THEN [error |-> MissingEVMAddresses, params |-> NoParams]
    ELSE [error |-> "none", params |-> formatImmutables(o)]

createEVMDestinationEscrow(o) ==
    IF ~({"makerEVMAddress", "takerEVMAddress"} \subseteq o.addresses)
    THEN [error |-> MissingEVMAddresses, params |-> NoParams]
    ELSE [error |-> "none", params |-> formatImmutables(o)]

createICPSourceEscrow(o) ==
    IF ~({"makerICPAddress", "takerICPAddress"} \subseteq o.addresses)
    THEN [error |-> MissingICPAddresses, params |-> NoParams]
    ELSE [error |-> "none",
          params |-> [token |-> IF o.srcToken # "" THEN o.srcToken ELSE "ICP",
                      amount |-> etherToICPAmount(o.srcAmount)]]

createICPDestinationEscrow(o) ==
    IF ~({"makerICPAddress", "takerICPAddress"} \subseteq o.addresses)
    THEN [error |-> MissingICPAddresses, params |-> NoParams]
    ELSE [error |-> "none",
          params |-> [token |-> IF o.dstToken # "" THEN o.dstToken ELSE "ICP",
                      amount |-> etherToICPAmount(o.dstAmount)]]

\* createSourceEscrow and createDestinationEscrow choose the manager by chain
createEscrow(o, side) ==
    IF side = "src"
    THEN IF o.srcChain = "icp" THEN createICPSourceEscrow(o)
         ELSE createEVMSourceEscrow(o)
    ELSE IF o.dstChain = "icp" THEN createICPDestinationEscrow(o)
         ELSE createEVMDestinationEscrow(o)

\* orders that passed validation, with the side whose escrow is created
CreationAmounts ==
    {<<0>>, <<7>>, <<1, 0, 0, 0, 0, 0, 0, 0, 0, 0, 0>>,
     <<2, 5, 0, 0, 0, 0, 0, 0, 0, 0, 0, 7>>}
ValidatedOrders ==
    {o \in [srcChain : SchemaChains, dstChain : SchemaChains,
            withdrawal : {withdrawalMin}, publicWithdrawal : {publicWithdrawalMin},
            cancellation : {cancellationMin}, addresses : SUBSET AddressNames,
            srcToken : {"srcToken"}, dstToken : {"dstToken"},
            srcAmount : CreationAmounts, dstAmount : CreationAmounts] :
        validateOrder(o) = "processOrder"}
CreationInputs == [order : ValidatedOrders, side : {"src", "dst"}]

\* deadline check of POST /orders and the times of the calls that follow an
\* accepted order, in seconds
DeadlineBuffer == 300
deadlineTooSoon(deadline, t) == deadline < t + DeadlineBuffer

\* times at which processOrder and the withdrawal timer issue their calls for
\* an order submitted at x.at: the source creation at once, the destination
\* creation when the source creation returned, the withdrawal when the timer
\* armed after both creations fires
callTimes(x) ==
    IF deadlineTooSoon(x.deadline, x.at)
    THEN [accepted |-> FALSE, calls |-> <<>>]
    ELSE [accepted |-> TRUE,
          calls |-> << [op |-> "create", side |-> "src", at |-> x.at],
                       [op |-> "create", side |-> "dst",
                        at |-> x.at + x.srcTakes],
                       [op |-> "withdraw", side |-> "src",
                        at |-> x.at + x.srcTakes + x.dstTakes + totalDelay(x)] >>]

\* deadlines around the buffer and beyond the largest timelock; durations of
\* the two creation calls
SubmitTimes == {0, 1000}
DeadlineOffsets ==
    {DeadlineBuffer - 1, DeadlineBuffer, DeadlineBuffer + 1, 3600,
     withdrawalMax, withdrawalMax + 60}
CallDurations == {0, 1, 30}
DeadlineInputs ==
    [at : SubmitTimes, offset : DeadlineOffsets,
     withdrawal : {withdrawalMin, 3600, withdrawalMax},
     srcTakes : CallDurations, dstTakes : CallDurations]

Probe(f, x) == [fn |-> f, input |-> x, done |-> FALSE, output |-> "none"]
ProbeInputs ==
    {Probe("validateOrder", req) : req \in Requests}
        \cup {Probe("checkLiquidityRequirements", x) : x \in LiquidityInputs}
        \cup {Probe("calculateSafetyDeposit", x) : x \in AmountStrings}
        \cup {Probe("createEscrow", x) : x \in CreationInputs}
        \cup {Probe("deadline", x) : x \in DeadlineInputs}
        \cup {[Probe("processOrder", x) EXCEPT !.output = <<"received", "received">>] :
                 x \in ConcurrentInputs}

FnInit == InitRegistry /\ probe \in ProbeInputs

ProbeValidate ==
    /\ probe.fn = "validateOrder"
    /\ ~probe.done
    /\ probe' = [probe EXCEPT !.done = TRUE,
                              !.output = validateOrder(probe.input)]
    /\ UNCHANGED <<now, evmManager, activeOrders, completedOrders, orders,
                   tasks, orderList, deployedAt, calls, lastSubmit>>

ProbeLiquidity ==
    /\ probe.fn = "checkLiquidityRequirements"
    /\ ~probe.done
    /\ probe' = [probe EXCEPT !.done = TRUE,
                              !.output = liquidityResult(probe.input)]
    /\ UNCHANGED <<now, evmManager, activeOrders, completedOrders, orders,
                   tasks, orderList, deployedAt, calls, lastSubmit>>

ProbeSafetyDeposit ==
    /\ probe.fn = "calculateSafetyDeposit"
    /\ ~probe.done
    /\ probe' = [probe EXCEPT !.done = TRUE,
                              !.output = safetyDepositString(probe.input)]
    /\ UNCHANGED <<now, evmManager, activeOrders, completedOrders, orders,
                   tasks, orderList, deployedAt, calls, lastSubmit>>

\* liquidity required on the destination chain by the orders whose escrow
\* creation is under way
inFlightRequired(k) ==
    IF \E j \in 1..2 : j # k /\ probe.output[j] = "createSrc"
    THEN LET x == probe.input[CHOOSE j \in 1..2 : j # k /\ probe.output[j] = "createSrc"]
         IN  calculateRequiredLiquidity(x.srcAmount, x.dstAmount,
                                        calculateSafetyDeposit(x.srcAmount)).dstChain
    ELSE 0

\* variant: the requirement of the orders in flight is reserved
processOrderLiquidityReserved(x, reserved) ==
    /\ checkLiquidityRequirements(x.srcAmount, x.dstAmount,
                                  calculateSafetyDeposit(x.srcAmount))
    /\ MockBalance - reserved >=
           calculateRequiredLiquidity(x.srcAmount, x.dstAmount,
                                      calculateSafetyDeposit(x.srcAmount)).dstChain

\* liquidity check of processOrder; what other orders hold is not looked at
processOrderLiquidity(x, reserved) ==
    checkLiquidityRequirements(x.srcAmount, x.dstAmount,
                               calculateSafetyDeposit(x.srcAmount))

\* processOrder of request k up to its first creation call
ProbeProcessOrder(k) ==
    /\ probe.fn = "processOrder"
    /\ probe.output[k] = "received"
    /\ LET out == [probe.output EXCEPT ![k] =
                      IF processOrderLiquidity(probe.input[k], inFlightRequired(k))
                      THEN "createSrc" ELSE "500"]
       IN  probe' = [probe EXCEPT !.output = out,
                                  !.done = \A j \in 1..2 : out[j] # "received"]
    /\ UNCHANGED <<now, evmManager, activeOrders, completedOrders, orders,
                   tasks, orderList, deployedAt, calls, lastSubmit>>

ProbeCreateEscrow ==
    /\ probe.fn = "createEscrow"
    /\ ~probe.done
    /\ probe' = [probe EXCEPT
           !.done = TRUE,
           !.output = createEscrow(probe.input.order, probe.input.side)]
    /\ UNCHANGED <<now, evmManager, activeOrders, completedOrders, orders,
                   tasks, orderList, deployedAt, calls, lastSubmit>>

ProbeDeadline ==
    /\ probe.fn = "deadline"
    /\ ~probe.done
    /\ probe' = [probe EXCEPT
           !.done = TRUE,
           !.output = callTimes(
               [at |-> probe.input.at,
                deadline |-> probe.input.at + probe.input.offset,
                withdrawal |-> probe.input.withdrawal,
                srcTakes |-> probe.input.srcTakes,
                dstTakes |-> probe.input.dstTakes])]
    /\ UNCHANGED <<now, evmManager, activeOrders, completedOrders, orders,
                   tasks, orderList, deployedAt, calls, lastSubmit>>

FnNext ==
    \/ ProbeDeadline
    \/ ProbeCreateEscrow
    \/ ProbeValidate
    \/ ProbeLiquidity
    \/ ProbeSafetyDeposit
    \/ \E k \in 1..2 : ProbeProcessOrder(k)

FunctionSpec == FnInit /\ [][FnNext]_vars

\* ================================================================ claims ====
\* indices of the calls of order i that match op / side
CallIdx(i, op, side) ==
    {k \in 1..Len(calls[i]) : calls[i][k].op = op /\ calls[i][k].side = side}

WithdrawIdx(i) == {k \in 1..Len(calls[i]) : calls[i][k].op = "withdraw"}

\* orders accepted under hash h for which a creation call was issued on side
CreatedFor(h, side) ==
    {i \in Allocated : orders[i].orderHash = h /\ CallIdx(i, "create", side) # {}}

\* steps of order i named execute_withdrawal (one per withdrawal attempt)
AttemptSteps(o) ==
    {k \in 1..Len(o.steps) : o.steps[k].name = "execute_withdrawal"}

FailedAttempts(o) ==
    {k \in AttemptSteps(o) : o.steps[k].status = "failed"}

\* C1: for every orderHash at most one source-escrow creation call and at
\* most one destination-escrow creation call is ever issued, whatever the
\* timing of the submissions carrying it.
C1_OneEscrowPairPerHash ==
    \A h \in Hashes :
        /\ Cardinality(CreatedFor(h, "src")) <= 1
        /\ Cardinality(CreatedFor(h, "dst")) <= 1

\* C2: an orderHash that was accepted for processing once is never accepted
\* again, also after its order failed and was purged by the cleanup job.
C2_AcceptedAtMostOnce ==
    \A h \in Hashes :
        Cardinality({i \in Allocated : orders[i].orderHash = h}) <= 1

\* C3: an order is completed only after a withdrawal call on its source
\* escrow and one on its destination escrow both returned successfully.
C3_CompletedAfterBothWithdrawals ==
    \A i \in Ids :
        orders[i].status = "completed" =>
            /\ \E k \in CallIdx(i, "withdraw", "src") : calls[i][k].res = "ok"
            /\ \E k \in CallIdx(i, "withdraw", "dst") : calls[i][k].res = "ok"

\* the escrow an issued withdrawal call reaches: its order and its side
EscrowSide(c) ==
    IF c.chain = "icp" THEN c.side
    ELSE IF orders[c.target].srcChain # "icp" THEN "src" ELSE "dst"

\* C4: no withdrawal call is issued on an escrow before that escrow's
\* deployment time plus the withdrawal timelock of the escrow's order.
C4_NoCallBeforeTimelock ==
    [][\A i \in Ids :
         LET c == calls'[i][Len(calls'[i])]
         IN  (Len(calls'[i]) > Len(calls[i]) /\ c.op = "withdraw") =>
                 now >= deployedAt[c.target][EscrowSide(c)]
                          + orders[c.target].withdrawal]_vars

C7_NoDestinationAfterSourceFailure ==
    \A i \in Ids :
        (Len(orders[i].steps) >= 1 /\ orders[i].steps[1].status = "failed")
            => CallIdx(i, "create", "dst") = {}

C7_Witness ==
    \E i \in Ids :
        /\ Len(orders[i].steps) >= 1
        /\ orders[i].steps[1].status = "failed"
        /\ \E k \in CallIdx(i, "create", "src") : calls[i][k].res = "err"
        /\ tasks[i].pc = "done"

\* C8: at most three withdrawal attempts per order; when the third attempt
\* fails the order is failed with the error of that attempt, and no attempt
\* is started afterwards.
C8_ThreeAttemptsThenFailed ==
    [][\A i \in Ids :
         LET o == orders[i]
             p == orders'[i]
         IN  /\ Cardinality(AttemptSteps(p)) <= 3
             /\ (Cardinality(FailedAttempts(o)) = 2 /\
                 Cardinality(FailedAttempts(p)) = 3) =>
                    /\ p.status = "failed"
                    /\ p.error.op = p.steps[Len(p.steps)].error.op
                    /\ p.error.attempt = p.steps[Len(p.steps)].error.attempt
                    /\ tasks[i].attempt = 3
                    /\ tasks'[i].pc = "done"
             /\ Cardinality(FailedAttempts(o)) = 3 => p.steps = o.steps]_vars

C8_Witness ==
    \E i \in Ids :
        /\ Cardinality(FailedAttempts(orders[i])) = 3
        /\ orders[i].status = "failed"
        /\ orders[i].error.all

\* C9: when a withdrawal attempt succeeds (initial or retry) the order
\* becomes completed, leaves the active set, is in the completed set, and
\* no withdrawal attempt is made for it afterwards.
Succeeded(o) ==
    \E k \in AttemptSteps(o) : o.steps[k].status = "completed"

C9_SuccessCompletes ==
    [][\A i \in Ids :
         LET o == orders[i]
             p == orders'[i]
         IN  /\ (~Succeeded(o) /\ Succeeded(p)) =>
                    /\ p.status = "completed"
                    /\ activeOrders'[p.orderHash] = NoOrder
                    /\ completedOrders'[p.orderHash] = i
             /\ Succeeded(o) => (p.steps = o.steps /\ calls'[i] = calls[i])]_vars

C9_Witness ==
    \E i \in Ids :
        /\ Succeeded(orders[i])
        /\ Cardinality(FailedAttempts(orders[i])) = 2
        /\ completedOrders[orders[i].orderHash] = i

\* C10: an order is failed for a withdrawal error only when the initial
\* attempt and both retries have failed; while a retry is still to come the
\* order is not failed.
C10_FailedOnlyWhenExhausted ==
    \A i \in Ids :
        (tasks[i].pc = "timer" /\ tasks[i].attempt >= 2)
            => orders[i].status # "failed"

\* C11: completed and failed are terminal: once an order has one of these
\* statuses no later step gives it another status.
C11_TerminalStatuses ==
    [][\A i \in Ids :
         orders[i].status \in {"completed", "failed"} =>
             orders'[i].status = orders[i].status]_vars

\* the initial firing of the withdrawal timer of order i
InitialFiring(i) ==
    /\ tasks[i].pc = "timer"
    /\ tasks[i].attempt = 1
    /\ tasks'[i] # tasks[i]

C13_NoStepAfterCancel ==
    [][\A i \in Ids :
         orders[i].status = "cancelling" =>
             Len(orders'[i].steps) = Len(orders[i].steps)]_vars

\* C14: cancelling is entered only by a cancel request, and an order that is
\* cancelling keeps that status whatever call finishes afterwards.
C14_CancellingOnlyByCancel ==
    [][\A i \in Ids :
         /\ (orders[i].status # "cancelling" /\ orders'[i].status = "cancelling")
                => (/\ activeOrders[orders[i].orderHash] = i
                    /\ tasks' = tasks /\ calls' = calls)
         /\ orders[i].status = "cancelling" =>
                orders'[i].status = "cancelling"]_vars

\* C15: a submission that ends in a validation error or in an insufficient
\* liquidity result issues no adapter call and adds its orderHash neither to
\* the active set nor to the completed set.
C15_RejectedLeavesNoTrace ==
    [][(lastSubmit' # lastSubmit /\ lastSubmit' \in {"400", "500"}) =>
           /\ calls' = calls
           /\ activeOrders' = activeOrders
           /\ completedOrders' = completedOrders]_vars

C15_Witness ==
    /\ lastSubmit = "500"
    /\ \A h \in Hashes : ~OrderExists(h)

\* the destination-escrow creation of the order failed after its source
\* escrow was created
DstCreationFailed(o) ==
    /\ Len(o.steps) >= 2
    /\ o.steps[1].status = "completed"
    /\ o.steps[2].name = "create_destination_escrow"
    /\ o.steps[2].status = "failed"

\* some order's task issued a withdrawal call on the source escrow of i
SourceEscrowCalled(i) ==
    \E j \in Ids : \E k \in WithdrawIdx(j) :
        /\ calls[j][k].target = i
        /\ calls[j][k].chain = orders[i].srcChain

\* C16: if the destination-escrow creation fails after the source escrow was
\* created, the order is failed with the steps create_source_escrow completed
\* and create_destination_escrow failed, no withdrawal task is armed for it,
\* and no withdrawal call is issued on its source escrow.
C16_DestinationFailureAbandons ==
    [][\A i \in Ids :
         /\ (~DstCreationFailed(orders[i]) /\ DstCreationFailed(orders'[i])) =>
                /\ orders'[i].status = "failed"
                /\ Len(orders'[i].steps) = 2
                /\ tasks'[i].pc = "done"
         /\ DstCreationFailed(orders[i]) =>
                /\ orders'[i].steps = orders[i].steps
                /\ tasks'[i] = tasks[i]
                /\ ~SourceEscrowCalled(i)']_vars

\* an escrow-creation step of the order is failed
CreationFailure(o) ==
    \E k \in 1..Len(o.steps) :
        /\ o.steps[k].name \in {"create_source_escrow", "create_destination_escrow"}
        /\ o.steps[k].status = "failed"

\* C17: when an escrow-creation step fails, the step is failed with the
\* error, the order is failed with the same error, and the submission is
\* answered with an error response instead of an unhandled failure.
C17_CreationErrorRecorded ==
    [][\A i \in Ids :
         (~CreationFailure(orders[i]) /\ CreationFailure(orders'[i])) =>
             LET p == orders'[i]
             IN  /\ p.steps[Len(p.steps)].status = "failed"
                 /\ p.steps[Len(p.steps)].error # NoError
                 /\ p.status = "failed"
                 /\ p.error = p.steps[Len(p.steps)].error
                 /\ tasks'[i].http = "500"]_vars

\* C18: at most one withdrawal task is armed per order, only after both
\* creation steps completed; no withdrawal attempt is made for an order with
\* a failed or unfinished creation step.
BothCreated(o) ==
    /\ Len(o.steps) >= 2
    /\ o.steps[1].name = "create_source_escrow"
    /\ o.steps[1].status = "completed"
    /\ o.steps[2].name = "create_destination_escrow"
    /\ o.steps[2].status = "completed"

C18_ArmedOnceAfterCreation ==
    [][\A i \in Ids :
         /\ (tasks'[i].pc = "timer" /\ tasks'[i].attempt = 1
             /\ tasks'[i] # tasks[i]) =>
                (tasks[i].pc = "createDst" /\ BothCreated(orders'[i]))
         /\ (tasks'[i].pc \in {"timer", "withdraw", "settle"}
             \/ AttemptSteps(orders'[i]) # {}) => BothCreated(orders'[i])
         /\ tasks[i].pc = "done" => tasks'[i].pc = "done"]_vars

C18_Witness ==
    \E i \in Ids :
        /\ tasks[i].pc = "timer"
        /\ tasks[i].attempt = 1
        /\ BothCreated(orders[i])

\* adapter calls of orders with hash h that have not returned yet
InFlight(h) ==
    {i \in Ids : /\ orders[i].orderHash = h
                 /\ calls[i] # <<>>
                 /\ calls[i][Len(calls[i])].res = "pending"}

\* C19: never are two adapter calls for the same orderHash in flight at the
\* same time.
C19_OneCallInFlightPerHash ==
    \A h \in Hashes : Cardinality(InFlight(h)) <= 1

\* the order is completed with exactly its three steps, all completed, is in
\* the completed set and not in the active set
CompletedInThreeSteps(i) ==
    LET o == orders[i]
    IN  /\ o.status = "completed"
        /\ Len(o.steps) = 3
        /\ BothCreated(o)
        /\ o.steps[3].name = "execute_withdrawal"
        /\ o.steps[3].status = "completed"
        /\ completedOrders[o.orderHash] = i
        /\ activeOrders[o.orderHash] = NoOrder

SomeCallFailed ==
    \E j \in Ids : \E k \in 1..Len(calls[j]) : calls[j][k].res = "err"

\* the receipt of an EVM creation did not hold the creation event
SomeEventMissing ==
    \E j \in Ids : \E k \in 1..Len(calls[j]) :
        /\ calls[j][k].op = "create"
        /\ calls[j][k].chain # "icp"
        /\ calls[j][k].res = "ok"
        /\ calls[j][k].escrow = NoEscrow

\* the clock of the model has stopped before the timer of order i is due
HorizonReached(i) ==
    /\ now = MaxTime
    /\ tasks[i].pc \in {"timer", "settle"}
    /\ tasks[i].due > now

C21_HashlockIsDigestOfSecret ==
    [][\A i \in Ids :
         /\ orders[i].status # "none" => orders'[i].keys = orders[i].keys
         /\ calls'[i] # <<>> =>
                /\ hashlockBytes(orders'[i]) = orders'[i].keys.hashlock
                /\ secretBytes(orders'[i]) = orders'[i].keys.secret
                /\ hashlockBytes(orders'[i]) = sha256(secretBytes(orders'[i]))]_vars

C21_Witness ==
    \E i \in Ids :
        /\ CallIdx(i, "create", "src") # {}
        /\ CallIdx(i, "create", "dst") # {}
        /\ CallIdx(i, "withdraw", "dst") # {}
        /\ orders[i].keys.secret # <<>>

\* validateOrder has answered the request in probe.input
Validated ==
    /\ probe.fn = "validateOrder"
    /\ probe.done

\* valid in everything but the order of its timelocks
OtherwiseValid(req) ==
    /\ schemaFields(req)
    /\ schemaCustom(req)
    /\ req.srcChain # req.dstChain

\* C22: validation rejects every order whose timelocks are not strictly
\* increasing and accepts an otherwise valid order whose timelocks increase
\* by the least possible step.
C22_TimelocksStrictlyIncreasing ==
    LET req == probe.input IN
        /\ (/\ Validated
            /\ \/ req.withdrawal >= req.publicWithdrawal
               \/ req.publicWithdrawal >= req.cancellation)
               => probe.output # "processOrder"
        /\ (/\ Validated
            /\ OtherwiseValid(req)
            /\ req.withdrawal < req.publicWithdrawal
            /\ req.publicWithdrawal < req.cancellation)
               => probe.output = "processOrder"

C22_Witness ==
    /\ probe.fn = "validateOrder"
    /\ probe.output = "processOrder"
    /\ probe.input.publicWithdrawal = probe.input.withdrawal + 1
    /\ probe.input.cancellation = probe.input.publicWithdrawal + 1

\* C23: validation rejects every order with srcChain = dstChain and every
\* order whose pair is not one ICP side and one supported EVM side; none
\* reaches processOrder.
C23_UnsupportedPairRejected ==
    LET req == probe.input IN
        (/\ Validated
         /\ \/ req.srcChain = req.dstChain
            \/ ~(\/ req.srcChain = "icp" /\ req.dstChain \in {"ethereum", "base"}
                 \/ req.dstChain = "icp" /\ req.srcChain \in {"ethereum", "base"}))
            => probe.output # "processOrder"

C23_Witness ==
    /\ probe.fn = "validateOrder"
    /\ probe.output = "Invalid order format"
    /\ probe.input.srcChain = "ethereum"
    /\ probe.input.dstChain = "base"
    /\ probe.input.addresses = AddressNames
    /\ timelocksIncreasing(probe.input)
    /\ schemaFields(probe.input)

\* C24 as stated: an ICP->EVM order must carry the maker's ICP address, the
\* maker's EVM address and the taker's EVM address, an EVM->ICP order the
\* maker's EVM address, the maker's ICP address and the taker's ICP address;
\* an order missing one of them is rejected, an order carrying them is not
\* rejected for its addresses.
C24_AddressesAsStated ==
    LET req == probe.input IN
        (/\ Validated
         /\ schemaFields(req)
         /\ timelocksIncreasing(req)
         /\ isICPToEVM(req) \/ isEVMToICP(req)) =>
            (probe.output = "processOrder" <=>
                (IF isICPToEVM(req)
                 THEN {"makerICPAddress", "makerEVMAddress", "takerEVMAddress"}
                 ELSE {"makerEVMAddress", "makerICPAddress", "takerICPAddress"})
                    \subseteq req.addresses)

\* C24 amended: the requirement is the other way round.  An EVM->ICP order
\* must carry the maker's ICP address, the maker's EVM address and the
\* taker's EVM address; an ICP->EVM order must carry the maker's EVM address,
\* the maker's ICP address and the taker's ICP address.
C24_AddressesByDirection ==
    LET req == probe.input IN
        (/\ Validated
         /\ schemaFields(req)
         /\ timelocksIncreasing(req)
         /\ isICPToEVM(req) \/ isEVMToICP(req)) =>
            (probe.output = "processOrder" <=>
                (IF isEVMToICP(req)
                 THEN {"makerICPAddress", "makerEVMAddress", "takerEVMAddress"}
                 ELSE {"makerEVMAddress", "makerICPAddress", "takerICPAddress"})
                    \subseteq req.addresses)

C24_Witness ==
    /\ probe.fn = "validateOrder"
    /\ probe.output = "Invalid order format"
    /\ isICPToEVM(probe.input)
    /\ schemaFields(probe.input)
    /\ probe.input.addresses =
           {"makerICPAddress", "makerEVMAddress", "takerEVMAddress"}

C26_DepositIsFloorOfFifteenPercent ==
    (probe.fn = "calculateSafetyDeposit" /\ probe.done) =>
        LET a == BigInt(probe.input)
            d == BigInt(probe.output)
        IN  /\ 100 * d <= 15 * a
            /\ 15 * a < 100 * (d + 1)
            /\ a = 0 => probe.output = <<0>>
            /\ toString(d) = probe.output

C26_Witness ==
    /\ probe.fn = "calculateSafetyDeposit"
    /\ probe.done
    /\ probe.input = <<0, 4, 7>>
    /\ probe.output = <<7>>

\* a step of the periodic sweep: the active set changes and nothing else does
SweepStep ==
    /\ activeOrders' # activeOrders
    /\ UNCHANGED <<now, orders, tasks, calls, lastSubmit>>

\* C27: a sweep removes from the active set exactly the entries of failed
\* orders created more than the retention window ago; it removes and alters
\* no order that is processing, cancelling or completed, and it leaves the
\* completed set unchanged.
C27_SweepRemovesOldFailedOnly ==
    [][SweepStep =>
         /\ \A h \in Hashes :
              /\ activeOrders'[h] \in {activeOrders[h], NoOrder}
              /\ (activeOrders[h] # NoOrder /\ activeOrders'[h] = NoOrder)
                   <=> (/\ activeOrders[h] # NoOrder
                        /\ orders[activeOrders[h]].status = "failed"
                        /\ orders[activeOrders[h]].createdAt < now - Retention)
         /\ orders' = orders
         /\ completedOrders' = completedOrders]_vars

C27_Witness ==
    \E h \in Hashes :
        /\ Allocated = {1}
        /\ orders[1].orderHash = h
        /\ orders[1].status = "failed"
        /\ orders[1].createdAt < now - Retention
        /\ activeOrders[h] = NoOrder

\* the chain reported the creation of the EVM escrow of order j
EvmEscrowCreated(j) ==
    \E k \in CallIdx(j, "create", evmSide(orders[j])) :
        /\ calls[j][k].chain # "icp"
        /\ calls[j][k].res = "ok"
        /\ calls[j][k].escrow # NoEscrow
        /\ calls[j][k].escrow.address =
               addressOfEscrow(j, deployedAt[j][evmSide(orders[j])])

\* C28: every withdrawal call on an EVM chain goes to the address that the
\* chain reported when an escrow of the call's orderHash was created, with
\* immutables carrying the time of that deployment, and never to an address
\* predicted before a creation.
C28_WithdrawalTargetsActualEscrow ==
    \A i \in Ids : \A k \in 1..Len(calls[i]) :
        LET c == calls[i][k]
        IN  (c.op = "withdraw" /\ c.chain # "icp") =>
                /\ \E j \in Ids :
                     /\ orders[j].orderHash = orders[i].orderHash
                     /\ EvmEscrowCreated(j)
                     /\ deployedAt[j][evmSide(orders[j])] # NotDeployed
                     /\ c.escrow.deployedAt = deployedAt[j][evmSide(orders[j])]
                     /\ c.escrow.address =
                            addressOfEscrow(j, deployedAt[j][evmSide(orders[j])])
                /\ \A j \in Ids : c.escrow.address # predictedAddress(j)

C28_Witness ==
    \E i \in Ids : \E k \in 1..Len(calls[i]) :
        /\ calls[i][k].op = "withdraw"
        /\ calls[i][k].chain # "icp"
        /\ calls[i][k].res = "ok"
        /\ calls[i][k].escrow.deployedAt > 0

\* C29: the steps of an order are only appended to; a step changes only from
\* pending to completed or from pending to failed, and a step that is
\* completed or failed never changes again.
C29_StepsAppendOnly ==
    [][\A i \in Ids :
         /\ Len(orders'[i].steps) >= Len(orders[i].steps)
         /\ \A k \in 1..Len(orders[i].steps) :
              LET st == orders[i].steps[k]
                  st1 == orders'[i].steps[k]
              IN  \/ st1 = st
                  \/ /\ st.status = "pending"
                     /\ st1.status \in {"completed", "failed"}
                     /\ st1.name = st.name]_vars

C29_Witness ==
    \E i \in Ids :
        /\ Len(orders[i].steps) >= 4
        /\ orders[i].steps[3].status = "failed"
        /\ orders[i].steps[4].status = "completed"

\* C30: each of the two creation calls is issued at most once for an order,
\* and only by processOrder: no creation call is issued once a creation call
\* of that side exists, once any creation call has failed, or once the
\* withdrawal scheduler has been armed.
C30_CreationCalledOnce ==
    [][\A i \in Ids :
         LET c == calls'[i][Len(calls'[i])]
         IN  (Len(calls'[i]) > Len(calls[i]) /\ c.op = "create") =>
                 /\ CallIdx(i, "create", c.side) = {}
                 /\ \A k \in 1..Len(calls[i]) :
                        calls'[i][k].op = "create" => calls'[i][k].res = "ok"
                 /\ tasks[i].attempt = 0
                 /\ c.attempt = 0]_vars

C30_Witness ==
    \E i \in Ids :
        /\ \E k \in CallIdx(i, "create", "src") : calls[i][k].res = "err"
        /\ Cardinality(CallIdx(i, "create", "src")) = 1
        /\ orders[i].status = "failed"
        /\ orders[i].createdAt < now

\* liquidity an order requires on its destination chain
DstRequired(x) == x.dstAmount + (x.dstAmount * DepositPercent) \div 100

\* C31: the liquidity check reserves nothing.  Whether an order passes
\* depends on its own requirement and the balance only, also while the
\* creation calls of another order that passed against the same balance are
\* under way; two orders that the balance covers only one at a time both
\* proceed to escrow creation (the witness).
C31_CheckWithoutReservation ==
    [][\A k \in 1..2 :
         (/\ probe.fn = "processOrder"
          /\ probe.output[k] = "received"
          /\ probe'.output[k] # "received") =>
             (probe'.output[k] = "createSrc" <=>
                  /\ MockBalance >= probe.input[k].srcAmount
                         + (probe.input[k].srcAmount * DepositPercent) \div 100
                  /\ MockBalance >= DstRequired(probe.input[k]))]_vars

C31_Witness ==
    /\ probe.fn = "processOrder"
    /\ probe.output = <<"createSrc", "createSrc">>
    /\ DstRequired(probe.input[1]) <= MockBalance
    /\ DstRequired(probe.input[2]) <= MockBalance
    /\ DstRequired(probe.input[1]) + DstRequired(probe.input[2]) > MockBalance

\* C32: no creation call of an order that passed validation fails because an
\* address is missing.
C32_ValidatedOrderHasAddresses ==
    (probe.fn = "createEscrow" /\ probe.done) => probe.output.error = "none"

\* C37: each escrow is created with the token and the amount of its own side
\* of the order, unscaled.
C37_OwnTokenAndAmount ==
    (probe.fn = "createEscrow" /\ probe.done /\ probe.output.error = "none") =>
        LET o == probe.input.order
        IN  IF probe.input.side = "src"
            THEN /\ probe.output.params.token = o.srcToken
                 /\ probe.output.params.amount = o.srcAmount
            ELSE /\ probe.output.params.token = o.dstToken
                 /\ probe.output.params.amount = o.dstAmount

\* C33: no withdrawal call of an order goes to an escrow on which an earlier
\* withdrawal call of the order succeeded.
C33_NoRepeatAfterSuccess ==
    \A i \in Ids : \A k1 \in WithdrawIdx(i) : \A k2 \in WithdrawIdx(i) :
        (k1 < k2 /\ calls[i][k1].res = "ok") =>
            ~(/\ calls[i][k2].side = calls[i][k1].side
              /\ calls[i][k2].chain = calls[i][k1].chain
              /\ calls[i][k2].target = calls[i][k1].target)

\* a withdrawal attempt of the order failed and the timer of its retry is
\* armed and not yet due
RetryPending(i) ==
    /\ tasks[i].pc = "timer"
    /\ tasks[i].attempt > 1
    /\ tasks[i].due > now

\* C34: the sweep removes no order whose retry is pending, whatever the
\* withdrawal timelock of the order.
C34_SweepSparesPendingRetries ==
    [][SweepStep =>
         \A h \in Hashes :
             (activeOrders[h] # NoOrder /\ activeOrders'[h] = NoOrder) =>
                 ~RetryPending(activeOrders[h])]_vars

\* C35: no orderHash is in the active set and in the completed set; every
\* record of the completed set is completed, every record of the active set
\* is processing, failed or cancelling.
C35_RegistryPartition ==
    \A h \in Hashes :
        /\ ~(activeOrders[h] # NoOrder /\ completedOrders[h] # NoOrder)
        /\ completedOrders[h] # NoOrder =>
               orders[completedOrders[h]].status = "completed"
        /\ activeOrders[h] # NoOrder =>
               orders[activeOrders[h]].status \in
                   {"processing", "failed", "cancelling"}

C35_Witness ==
    \E h \in Hashes :
        /\ completedOrders[h] # NoOrder
        /\ activeOrders[h] = NoOrder
        /\ orders[completedOrders[h]].status = "completed"
        /\ \E i \in Ids : i # completedOrders[h] /\ orders[i].orderHash = h

\* C36: every accepted order that is not cancelled eventually is completed
\* or failed, when every call returns and every armed timer fires.
C36_EventuallyCompletedOrFailed ==
    \A i \in Ids :
        (orders[i].status = "processing") ~>
            \/ orders[i].status \in {"completed", "failed", "cancelling"}
            \/ HorizonReached(i)

\* C38: no withdrawal attempt of an order whose two creation steps are
\* completed fails because no escrow address is known for the order.
C38_CompletedCreationHasReference ==
    \A i \in Ids : \A k \in AttemptSteps(orders[i]) :
        BothCreated(orders[i]) => orders[i].steps[k].error # NoEscrowAddress

\* C39: no creation call and no withdrawal call of an accepted order is
\* issued after the deadline of the order.
C39_NoCallAfterDeadline ==
    (probe.fn = "deadline" /\ probe.done /\ probe.output.accepted) =>
        \A k \in 1..Len(probe.output.calls) :
            probe.output.calls[k].at <= probe.input.at + probe.input.offset
====
